---- MODULE Spec2Model ----
(***************************************************************************)
(* The template code generator of @lwc/template-compiler and its scope /  *)
(* variable-hoisting subsystem: the scope tree built while the IR is      *)
(* walked (Scope, NodeRefProxy), the flattening pass (dumpScope) and the  *)
(* assembly of the render function (generateTemplateFunction); and, of    *)
(* @lwc/engine-dom, the Node.prototype patches of createElement and       *)
(* hydrateComponent.                                                      *)
(***************************************************************************)
EXTENDS Integers, Sequences, FiniteSets, TLC

\* ------------------------------------------------------------------ bounds
\* IR nodes (elements, templates, expression texts) one compilation walks.
MaxNodes == 2

\* Elements createElement makes in one document.
MaxElements == 3

\* Child nodes of the server-rendered shadow root, and of the element.
MaxKids == 2

\* Calls of hydrateComponent on the element.
MaxCalls == 2

\* Component properties the template's expressions may name.
Props == {"a", "b", "item"}

\* The properties the if, for:each and iterator directives of the IR name.
DirectiveProps == {"a"}

VARIABLES
    scopes,        \* module-level scope-id counter (`let scopes = 0`)
    binder,        \* which getPropName bindExpression reaches: "scope" | "codegen"
    phase,         \* position in generateTemplateFunction
    scope,         \* the Scope objects of this compilation, in creation order
    currentScope,  \* CodeGen.currentScope (index into scope)
    cells,         \* NodeRefProxy objects: cells[c] is the node id of `target`
    nodes,         \* AST node objects the proxies wrap
    sites,         \* the references handed to the emitter, in emission order
    usedProps,     \* CodeGen.usedProps
    usedApis,      \* CodeGen.usedApis, keys in first-use order
    memorizedIds,  \* CodeGen.memorizedIds
    currentId,     \* CodeGen.currentId
    currentKey,    \* CodeGen.currentKey
    keys,          \* key numbers given to the elements, in emission order
    calls,         \* the render primitives of the _renderApiCall calls, in call order
    thrown,        \* the compiler error that aborted the compilation, if any
    walk,          \* the open IR elements of the recursive tree walk
    nNodes,        \* IR nodes walked so far
    body,          \* statements of the render function (generateTemplateFunction)
    run,           \* 1 for the first compilation of the process, 2 for the second
    ir,            \* the IR of the first compilation, as the steps of its walk
    pos,           \* the next step of ir the second compilation walks
    first,         \* the code the first compilation generated
    dom,           \* engine-dom: the elements made by createElement, one parent node
    page           \* engine-dom: the server-rendered element hydrateComponent is given

codegenVars == <<scopes, binder, phase, scope, currentScope, cells, nodes, sites,
          usedProps, usedApis, memorizedIds, currentId, currentKey, keys,
          calls, thrown, walk, nNodes, body, run, ir, pos, first>>

vars == <<codegenVars, dom, page>>

\* ------------------------------------------------------------- AST values
MemberExpression(p) ==
    [type |-> "MemberExpression", object |-> "$cmp", property |-> p, name |-> <<>>]

Identifier(alias) ==
    [type |-> "Identifier", object |-> "", property |-> "", name |-> alias]

Stmt(type, from, props, fn) ==
    [type |-> type, from |-> from, props |-> props, fn |-> fn]

ReturnStatement == Stmt("ReturnStatement", "", <<>>, 0)

\* const { <props> } = <from>
VariableDeclaration(from, props) == Stmt("VariableDeclaration", from, props, 0)

\* the declaration statement of scope s's helper function
FunctionDeclaration(s, id) == Stmt("FunctionDeclaration", "", id, s)

NoFn == [kind |-> "null", id |-> <<>>, params |-> <<>>, body |-> <<>>]

Undefined == [defined |-> FALSE, names |-> {}]

Defined(S) == [defined |-> TRUE, names |-> S]

NoAlias == <<>>

\* no exception is pending
NoError == "none"

\* shapes of the expressions the lowering passes around: a call expression,
\* the call of scope s's helper, an array expression of n elements, a spread
\* element, the literal null
Node == <<"node", 0>>

CallOf(s) == <<"call", s>>

ArrayOf(n) == <<"array", n>>

Spread == <<"spread", 0>>

\* the iterator call: the bound iterable and the helper of scope s as callback
IteratorOf(ref, s) == <<"iterator", ref, s>>

Null == <<"null", 0>>

\* an argument that was not passed
NoValue == <<"undefined", 0>>

\* the statement `return <payload>` of a helper function
ReturnOf(payload) == Stmt("ReturnStatement", "", payload, 0)

\* the values of if:<modifier> the parser may hand over
Modifiers == {"true", "false", "strict-true", "bogus"}

\* ------------------------------------------------------------ NodeRefProxy
\* (mutant) `instance` is the wrapped target itself, not a view of the proxy
ProxyInstance_Target(c, n) == [kind |-> "node", id |-> n]

\* What `instance` is: a view that reads the proxy's current target.
ProxyInstance(c, n) == [kind |-> "proxy", id |-> c]

\* A read of any property through a reference embedded in the output.
Resolve(ns, cs, ref) ==
    IF ref.kind = "proxy" THEN ns[cs[ref.id]] ELSE ns[ref.id]

\* new NodeRefProxy(target): st with the target object and the proxy added.
NewProxy(st, target) ==
    [st EXCEPT !.nodes = Append(st.nodes, target),
               !.cells = Append(st.cells, Len(st.nodes) + 1)]

\* (mutant) swap leaves `target` as it was
swap_KeepsTarget(st, c, newTarget) ==
    [st EXCEPT !.nodes = Append(st.nodes, newTarget)]

\* NodeRefProxy.swap(newTarget) on proxy c; newTarget is a fresh object.
swap(st, c, newTarget) ==
    [st EXCEPT !.nodes = Append(st.nodes, newTarget),
               !.cells = [st.cells EXCEPT ![c] = Len(st.nodes) + 1]]

\* ------------------------------------------------------------------- Scope
NewScope(scopeId, parent) ==
    [id |-> scopeId, parentScope |-> parent, childScopes |-> <<>>,
     mainFn |-> NoFn, usedProps |-> <<>>,
     cachedAggregatedProps |-> Undefined, computed |-> 0]

\* position of name in a usedProps map (insertion order), 0 when absent
IndexOf(used, name) ==
    IF \E i \in DOMAIN used : used[i].name = name
    THEN CHOOSE i \in DOMAIN used : used[i].name = name
    ELSE 0

\* (mutant) the table is never consulted: every bind makes a new record
Memoized_Never(used, name) == FALSE

\* the guard `if (!memoizedPropName)` of getPropName
Memoized(used, name) == IndexOf(used, name) # 0

\* Scope.setFn(params, body, kind) on scope s
setFn(st, s, params, stmts, kind) ==
    LET id == <<kind, st.scope[s].id, Len(st.scope[s].childScopes)>>
    IN  [st EXCEPT !.scope[s].mainFn =
            [kind |-> kind, id |-> id, params |-> params, body |-> stmts]]

\* Scope.getPropName(identifier) on scope s; the returned reference is
\* appended to st.sites.
ScopeGetPropName(st, s, name) ==
    LET used == st.scope[s].usedProps
        fresh == ~Memoized(used, name)
        st1 == IF fresh THEN NewProxy(st, MemberExpression(name)) ELSE st
        rec == [name |-> name,
                gen |-> <<"$cv", st.scope[s].id, Len(used)>>,
                usage |-> Len(st1.cells),
                instance |-> ProxyInstance(Len(st1.cells), Len(st1.nodes)),
                instances |-> 0]
        used1 == IF fresh THEN Append(used, rec) ELSE used
        i == IndexOf(used1, name)
        used2 == [used1 EXCEPT ![i].instances = @ + 1]
    IN  [st1 EXCEPT !.scope[s].usedProps = used2,
                    !.sites = Append(st1.sites,
                        [scope |-> s, at |-> s, name |-> name,
                         proxy |-> used2[i].usage,
                         ref |-> used2[i].instance])]

\* ----------------------------------------------------------------- CodeGen
\* CodeGen.getPropName(identifier): the property table of the CodeGen object.
CodeGenGetPropName(st, name) ==
    LET used == st.usedProps
        fresh == ~Memoized(used, name)
        st1 == IF fresh THEN NewProxy(st, MemberExpression(name)) ELSE st
        rec == [name |-> name,
                gen |-> <<"$cv", Len(used)>>,
                firstUse |-> Len(st1.cells),
                replacement |-> ProxyInstance(Len(st1.cells), Len(st1.nodes)),
                replaced |-> FALSE]
        i == IndexOf(used, name)
        st2 == IF fresh
               THEN [st1 EXCEPT !.usedProps = Append(used, rec)]
               ELSE IF ~used[i].replaced
               THEN [swap(st, used[i].firstUse, Identifier(used[i].gen))
                        EXCEPT !.usedProps[i].replaced = TRUE]
               ELSE st
        j == IndexOf(st2.usedProps, name)
    IN  [st2 EXCEPT !.sites = Append(st2.sites,
            [scope |-> st.currentScope, at |-> st.currentScope, name |-> name,
             proxy |-> st2.usedProps[j].firstUse,
             ref |-> st2.usedProps[j].replacement])]

\* CodeGen.getUsedComponentProperties(): the (name, alias) pairs to destructure
RECURSIVE getUsedComponentProperties(_)
getUsedComponentProperties(used) ==
    IF used = <<>> THEN <<>>
    ELSE LET rest == getUsedComponentProperties(Tail(used))
         IN  IF Head(used).replaced
             THEN <<<<Head(used).name, Head(used).gen>>>> \o rest
             ELSE rest

\* (mutant) every call adds the primitive to usedApis
renderApiCall_Always(st, name) ==
    [st EXCEPT !.calls = Append(@, name),
               !.usedApis = Append(st.usedApis, name)]

\* CodeGen._renderApiCall(primitive, params): records the primitive's first use
renderApiCall(st, name) ==
    IF \E i \in DOMAIN st.usedApis : st.usedApis[i] = name
    THEN [st EXCEPT !.calls = Append(@, name)]
    ELSE [st EXCEPT !.calls = Append(@, name),
                    !.usedApis = Append(st.usedApis, name)]

\* CodeGen.bindExpression(expression, irNode) for an identifier that is a
\* component property.
bindExpression(st, name) ==
    IF st.binder = "scope"
    THEN ScopeGetPropName(st, st.currentScope, name)
    ELSE CodeGenGetPropName(st, name)

\* (mutant) the counter is not advanced: every scope takes the same id
NextScopeId_Same(counter) == counter

\* `id: number = ++scopes`: the id a new Scope takes from the module counter
NextScopeId(counter) == counter + 1

\* CodeGen.createScope(): a new child of the current scope becomes current.
createScope(st) ==
    LET id == NextScopeId(st.scopes)
        n == Len(st.scope) + 1
        cur == st.currentScope
        linked == [st.scope EXCEPT ![cur].childScopes = Append(@, n)]
    IN  [st EXCEPT !.scopes = id,
                   !.scope = Append(linked, NewScope(id, cur)),
                   !.currentScope = n]

\* CodeGen.popScope(): back to the parent of the current scope.
popScope(st) == [st EXCEPT !.currentScope = st.scope[st.currentScope].parentScope]

\* (mutant) the counter is read and not advanced
generateKey_Same(st) == [st EXCEPT !.keys = Append(@, st.currentKey)]

\* CodeGen.generateKey()
generateKey(st) ==
    [st EXCEPT !.currentKey = @ + 1, !.keys = Append(@, st.currentKey)]

\* CodeGen.getMemorizationId()
getMemorizationId(st) ==
    [st EXCEPT !.currentId = @ + 1,
               !.memorizedIds = Append(@, <<"_m", st.currentId>>)]

\* the page before the server-rendered element is there
NoPage == [loaded |-> FALSE]

\* no call of hydrateComponent was made yet
NoCall == [outcome |-> "none", failed |-> "none", light |-> FALSE, props |-> 0]

\* ------------------------------------------------------------- the store
St == [scopes |-> scopes, binder |-> binder, scope |-> scope,
       currentScope |-> currentScope, cells |-> cells, nodes |-> nodes,
       sites |-> sites, usedProps |-> usedProps, usedApis |-> usedApis,
       memorizedIds |-> memorizedIds, currentId |-> currentId,
       currentKey |-> currentKey, keys |-> keys, body |-> body,
       calls |-> calls, thrown |-> thrown, res |-> Node]

Commit(st) ==
    /\ scopes' = st.scopes
    /\ scope' = st.scope
    /\ currentScope' = st.currentScope
    /\ cells' = st.cells
    /\ nodes' = st.nodes
    /\ sites' = st.sites
    /\ usedProps' = st.usedProps
    /\ usedApis' = st.usedApis
    /\ memorizedIds' = st.memorizedIds
    /\ currentId' = st.currentId
    /\ currentKey' = st.currentKey
    /\ keys' = st.keys
    /\ body' = st.body
    /\ calls' = st.calls
    /\ thrown' = st.thrown
    /\ UNCHANGED <<binder, dom, page>>

\* --------------------------------------------------- lowering (transform)
\* the names an open element's iteration binds for its subtree
LoopBindings(loop) ==
    IF loop = "forEach" THEN {"item", "index"}
    ELSE IF loop = "forEachItem" THEN {"item"}
    ELSE IF loop = "forOf" THEN {"x"}
    ELSE {}

\* element.forEach is set: for:each with for:item, with or without for:index
ForEachLoops == {"forEach", "forEachItem"}

\* `params = [item]; if (index) params.push(index)`
ForEachParams(loop) ==
    IF loop = "forEach" THEN <<"item", "index">> ELSE <<"item">>

\* the reference the last bindExpression returned
Bound(st) == st.sites[Len(st.sites)].ref

\* the loop-local names in force at a node whose open ancestors are w
Locals(w) == UNION {LoopBindings(w[i].loop) : i \in DOMAIN w}

\* isComponentProp(identifier, irNode)
isComponentProp(name, locals) == name \notin locals

\* (mutant) every identifier of a member chain is taken for an object
IsObject_Any(e, i) == TRUE

\* `parent.object === node` for the i-th identifier of the member chain e
\* (e[1].e[2]...): only the leftmost identifier is the object of its parent
IsObject(e, i) == i = 1

\* the walk of bindExpression over the identifiers of the member chain e,
\* from the i-th on
RECURSIVE BindFrom(_, _, _, _)
BindFrom(st, e, locals, i) ==
    IF i > Len(e) THEN st
    ELSE IF IsObject(e, i) /\ isComponentProp(e[i], locals)
         THEN CHOOSE r \in {BindFrom(st1, e, locals, i + 1) :
                            st1 \in {bindExpression(st, e[i])}} : TRUE
         ELSE BindFrom(st, e, locals, i + 1)

\* CodeGen.bindExpression(expression, irNode) for an identifier (a chain of
\* one name) or a member expression
BindExpression(st, e, locals) ==
    IF Len(e) = 1
    THEN IF isComponentProp(e[1], locals) THEN bindExpression(st, e[1]) ELSE st
    ELSE BindFrom(st, e, locals, 1)

\* In the operators below the state a statement leaves is bound once
\* (x \in {e}) and handed to the next statement.
\* elementDataBag(element): attrs, then the key, then the event handlers.
\* bag is <<"none">>, <<"attrs", p>>, <<"key", p>> or <<"on", p, memo>>; memo
\* says whether memorizeHandler asks for a memorization id.
elementDataBag(st, bag) ==
    CHOOSE r \in
      {IF bag[1] = "on" /\ bag[3] THEN getMemorizationId(st3) ELSE st3 :
        st3 \in {IF bag[1] = "on" THEN renderApiCall(b2, "b") ELSE b2 :
          b2 \in {IF bag[1] = "on" THEN bindExpression(st2, bag[2]) ELSE st2 :
            st2 \in {IF bag[1] = "key" THEN renderApiCall(k1, "k") ELSE k1 :
              k1 \in {generateKey(st1) :
                st1 \in {IF bag[1] \in {"attrs", "key"}
                         THEN bindExpression(st, bag[2]) ELSE st}}}}}} : TRUE

\* (mutant) an unknown modifier is read as `true`
LeftExpression_Fallback(modifier) ==
    IF modifier = "false" THEN "!t"
    ELSE IF modifier = "strict-true" THEN "t===true"
    ELSE "t"

\* (mutant) strict-true is tested like true
LeftExpression_Loose(modifier) ==
    IF modifier = "true" THEN "t"
    ELSE IF modifier = "false" THEN "!t"
    ELSE IF modifier = "strict-true" THEN "t"
    ELSE "throw"

\* the test of the conditional expression applyInlineIf builds for a modifier
LeftExpression(modifier) ==
    IF modifier = "true" THEN "t"
    ELSE IF modifier = "false" THEN "!t"
    ELSE IF modifier = "strict-true" THEN "t===true"
    ELSE "throw"

\* (mutant) the placeholder is always the literal null
falsyArray_Null(node, falseValue) == Null

\* `falsyArray`: the alternate of the conditional expression
falsyArray(node, falseValue) ==
    LET elem == IF falseValue = NoValue THEN Null ELSE falseValue
    IN  IF node[1] = "array" THEN <<"arrayOf", node[2], elem>> ELSE elem

\* the test expression the caller of applyInlineIf passed (the reference bound
\* last) becomes the argument of the call of the helper, in the code of the
\* scope that is current after the pop
PlaceTest(st) == [st EXCEPT !.sites[Len(st.sites)].at = st.currentScope]

\* applyInlineIf(element, node, testExpression?, falseValue?); bound says that
\* the caller passed testExpression, test is the property the directive names.
applyInlineIf(st, el, node, bound, test, falseValue) ==
    IF ~el.if THEN [st EXCEPT !.res = node]
    ELSE LET ifScope == st.currentScope
             leftExpression == LeftExpression(el.ifModifier)
             body1 == <<ReturnOf(<<leftExpression, node, falsyArray(node, falseValue)>>)>>
         IN  CHOOSE r \in
               {IF leftExpression = "throw"
                THEN [st2 EXCEPT !.thrown = "UNKNOWN_IF_MODIFIER"]
                ELSE [setFn(st2, ifScope, <<"t">>, body1, "if")
                        EXCEPT !.res = CallOf(ifScope)] :
                 st2 \in {IF bound THEN PlaceTest(st1)
                          ELSE bindExpression(st1, test) :
                   st1 \in {popScope(st)}}} : TRUE

\* (mutant) the iterable is bound while the loop's scope is current
applyInlineFor_BindFirst(st, el, node, iterable) ==
    IF el.loop \notin ForEachLoops THEN [st EXCEPT !.res = node]
    ELSE CHOOSE r \in
           {[renderApiCall(st3, "i")
                EXCEPT !.res = IteratorOf(Bound(st3), st.currentScope)] :
             st3 \in {popScope(st2) :
               st2 \in {bindExpression(st1, iterable) :
                 st1 \in {setFn(st, st.currentScope, ForEachParams(el.loop),
                                <<ReturnOf(<<node>>)>>, "foreach")}}}} : TRUE

\* applyInlineFor(element, node)
applyInlineFor(st, el, node, iterable) ==
    IF el.loop \notin ForEachLoops THEN [st EXCEPT !.res = node]
    ELSE CHOOSE r \in
           {[renderApiCall(st3, "i")
                EXCEPT !.res = IteratorOf(Bound(st3), st.currentScope)] :
             st3 \in {bindExpression(st2, iterable) :
               st2 \in {popScope(st1) :
                 st1 \in {setFn(st, st.currentScope, ForEachParams(el.loop),
                                <<ReturnOf(<<node>>)>>, "foreach")}}}} : TRUE

\* the iterator name of the for-of directives of the IR
iteratorName == "x"

\* `argsMapping`: the properties of the iterator object and the parameters
\* they read, for the iterator name x
argsMapping ==
    << <<"value", "xValue">>, <<"index", "xIndex">>,
       <<"first", "xFirst">>, <<"last", "xLast">> >>

\* `Object.values(argsMapping)`
iteratorArgs == [i \in DOMAIN argsMapping |-> argsMapping[i][2]]

\* (mutant) the helper returns before it declares the iterator object
applyInlineForOf_ReturnFirst(st, el, node, iterable) ==
    IF el.loop # "forOf" THEN [st EXCEPT !.res = node]
    ELSE CHOOSE r \in
           {[renderApiCall(st3, "i")
                EXCEPT !.res = IteratorOf(Bound(st3), st.currentScope)] :
             st3 \in {bindExpression(st2, iterable) :
               st2 \in {popScope(st1) :
                 st1 \in {setFn(st, st.currentScope, iteratorArgs,
                                <<ReturnOf(<<node>>),
                                  VariableDeclaration("iterator",
                                        <<iteratorName, argsMapping>>)>>, "forof")}}}} : TRUE

\* applyInlineForOf(element, node)
applyInlineForOf(st, el, node, iterable) ==
    IF el.loop # "forOf" THEN [st EXCEPT !.res = node]
    ELSE CHOOSE r \in
           {[renderApiCall(st3, "i")
                EXCEPT !.res = IteratorOf(Bound(st3), st.currentScope)] :
             st3 \in {bindExpression(st2, iterable) :
               st2 \in {popScope(st1) :
                 st1 \in {setFn(st, st.currentScope, iteratorArgs,
                                <<VariableDeclaration("iterator",
                                        <<iteratorName, argsMapping>>),
                                  ReturnOf(<<node>>)>>, "forof")}}}} : TRUE

\* applyTemplateIf(element, fragmentNodes); isArray says that the template's
\* children were lowered to an array expression (of el.kids).
applyTemplateIf(st, el, isArray, test) ==
    LET fragmentNodes == IF isArray THEN ArrayOf(Len(el.kids)) ELSE Node
    IN  IF ~el.if THEN [st EXCEPT !.res = fragmentNodes]
        ELSE IF isArray
        THEN CHOOSE r \in
               {IF Len(el.kids) = 1 /\ el.kids[1] # Spread
                THEN applyInlineIf(st1, el, el.kids[1], TRUE, test, NoValue)
                ELSE [applyInlineIf(st1, el, fragmentNodes, TRUE, test, NoValue)
                        EXCEPT !.res = Spread] :
                 st1 \in {bindExpression(st, test)}} : TRUE
        ELSE applyInlineIf(st, el, fragmentNodes, FALSE, test, ArrayOf(0))

\* transformElement(element) after its children: the element call, then the
\* inline if, then the inline for. A throw ends the call.
transformElement(st, el, test, iterable) ==
    CHOOSE r \in
      {IF st1.thrown # NoError THEN st1
       ELSE applyInlineFor(st1, el, st1.res, iterable) :
        st1 \in {applyInlineIf(h, el, Node, FALSE, test, NoValue) :
          h \in {renderApiCall(st, "h")}}} : TRUE

\* transformTemplate(element) after its children. A throw ends the call.
transformTemplate(st, el, isArray, test, iterable) ==
    CHOOSE r \in
      {IF st1.thrown # NoError THEN st1
       ELSE IF el.loop \in ForEachLoops THEN applyInlineFor(st1, el, st1.res, iterable)
       ELSE IF el.loop = "forOf" THEN applyInlineForOf(st1, el, st1.res, iterable)
       ELSE st1 :
        st1 \in {applyTemplateIf(st, el, isArray, test)}} : TRUE

\* the properties the attributes of the IR name
BagProps == {"a", "b"}

\* the data bags of the elements walked: no binding, one attribute bound to a
\* property, or one event handler (memorized, or not)
Bags == {<<"none">>} \cup {<<"attrs", p>> : p \in BagProps}
            \cup {<<"on", "a", m>> : m \in BOOLEAN}

\* data bags with or without an explicit key
KeyBags == {<<"none">>, <<"key", "a">>}

Loops == {"none", "forEach", "forOf"}

\* the expressions of the text nodes: identifiers
Texts == {<<"a">>, <<"b">>}

\* identifiers and member expressions, of properties and of loop bindings
TextExprs == {<<"a">>, <<"item">>, <<"a", "b">>, <<"item", "a">>}

\* computed member expressions value[index]
ComputedExprs == {<<"a", "b">>, <<"item", "a">>}

\* ------------------------------------------------ engine-dom: createElement
\* the document before createElement was called: no element, a parent node
\* without children, no patched method called yet
NoDom == [created |-> 0, slots |-> {}, children |-> <<>>,
          events |-> <<>>, returned |-> 0]

\* the value of `returned` when the call ended with an exception
Thrown == -1

\* seq without the node n
Without(seq, n) == SelectSeq(seq, LAMBDA x : x # n)

\* position of the node n among the children
PosIn(seq, n) == CHOOSE i \in DOMAIN seq : seq[i] = n

IsChild(seq, n) == \E i \in DOMAIN seq : seq[i] = n

\* the native Node.prototype.appendChild: the node is moved to the end
NativeAppendChild(seq, n) == Append(Without(seq, n), n)

\* the native Node.prototype.insertBefore; ref = 0 is a null reference node
NativeInsertBefore(seq, n, ref) ==
    IF ref = 0 THEN NativeAppendChild(seq, n)
    ELSE IF ref = n THEN seq
    ELSE LET rest == Without(seq, n)
             i == PosIn(rest, ref)
         IN  SubSeq(rest, 1, i - 1) \o <<n>> \o SubSeq(rest, i, Len(rest))

\* the native Node.prototype.replaceChild
NativeReplaceChild(seq, new, old) ==
    IF new = old THEN seq
    ELSE LET rest == Without(seq, new)
         IN  [i \in DOMAIN rest |-> IF rest[i] = old THEN new ELSE rest[i]]

\* (mutant) the slot's function is never called
callNodeSlot_Never(d, node, slot) == d

\* callNodeSlot(node, slot): the function in the node's hidden field, if there
\* is one, is called with the node
callNodeSlot(d, node, slot) ==
    IF node \in d.slots
    THEN [d EXCEPT !.events = Append(@, <<slot, node>>)]
    ELSE d

\* the native method ran: what it did to the children, what it returned
Native(d, op, args, seq, result) ==
    [d EXCEPT !.children = seq, !.returned = result,
              !.events = <<<<"native", op, args, result>>>>]

\* the native method threw: the patched method ends with the exception
NativeThrew(d, op, args) ==
    [d EXCEPT !.returned = Thrown, !.events = <<<<"threw", op, args>>>>]

\* createElement(sel, options): upgrades says whether the upgradable
\* constructor ran the upgrade callback, which creates the VM and sets the
\* two hidden fields of the element.
CreateElement(upgrades) ==
    /\ dom.created < MaxElements
    /\ dom' = [dom EXCEPT !.created = @ + 1,
                          !.slots = IF upgrades THEN @ \cup {dom.created + 1} ELSE @,
                          !.events = <<>>,
                          !.returned = dom.created + 1]
    /\ UNCHANGED <<codegenVars, page>>

\* the patched Node.prototype.appendChild(newChild) on the parent node
AppendChild(newChild) ==
    /\ newChild \in 1..dom.created
    /\ \E d \in {Native(dom, "appendChild", <<newChild>>,
                        NativeAppendChild(dom.children, newChild), newChild)} :
            dom' = callNodeSlot(d, d.returned, "connecting")
    /\ UNCHANGED <<codegenVars, page>>

\* the patched Node.prototype.insertBefore(newChild, referenceNode)
InsertBefore(newChild, referenceNode) ==
    /\ newChild \in 1..dom.created
    /\ referenceNode \in 0..dom.created
    /\ IF referenceNode # 0 /\ ~IsChild(dom.children, referenceNode)
       THEN dom' = NativeThrew(dom, "insertBefore", <<newChild, referenceNode>>)
       ELSE \E d \in {Native(dom, "insertBefore", <<newChild, referenceNode>>,
                        NativeInsertBefore(dom.children, newChild, referenceNode),
                        newChild)} :
                dom' = callNodeSlot(d, d.returned, "connecting")
    /\ UNCHANGED <<codegenVars, page>>

\* the patched Node.prototype.removeChild(oldChild)
RemoveChild(oldChild) ==
    /\ oldChild \in 1..dom.created
    /\ IF ~IsChild(dom.children, oldChild)
       THEN dom' = NativeThrew(dom, "removeChild", <<oldChild>>)
       ELSE \E d \in {Native(dom, "removeChild", <<oldChild>>,
                        Without(dom.children, oldChild), oldChild)} :
                dom' = callNodeSlot(d, d.returned, "disconnecting")
    /\ UNCHANGED <<codegenVars, page>>

\* the patched Node.prototype.replaceChild(newChild, oldChild)
ReplaceChild(newChild, oldChild) ==
    /\ newChild \in 1..dom.created
    /\ oldChild \in 1..dom.created
    /\ IF ~IsChild(dom.children, oldChild)
       THEN dom' = NativeThrew(dom, "replaceChild", <<newChild, oldChild>>)
       ELSE \E d \in {Native(dom, "replaceChild", <<newChild, oldChild>>,
                        NativeReplaceChild(dom.children, newChild, oldChild),
                        oldChild)} :
            \E d1 \in {callNodeSlot(d, d.returned, "disconnecting")} :
                dom' = callNodeSlot(d1, newChild, "connecting")
    /\ UNCHANGED <<codegenVars, page>>

\* --------------------------------------------- engine-dom: hydrateComponent
\* the server-rendered markup of the root element is in the document: with or
\* without a shadow root, with kids child nodes in it and lightKids children
\* of the element itself; no VM is associated with the element.
ServerRendered(shadowRoot, shadowKids, lightKids) ==
    [loaded |-> TRUE, shadowRoot |-> shadowRoot, shadowKids |-> shadowKids,
     lightKids |-> lightKids, vm |-> FALSE, vms |-> 0, assigned |-> 0,
     defined |-> 0, hydrated |-> FALSE, connected |-> FALSE, errors |-> 0,
     warnings |-> 0, calls |-> 0, last |-> NoCall]

\* getAssociatedVMIfPresent(element)
getAssociatedVMIfPresent(p) == p.vm

\* (mutant) the check for a hydrated element is missing
AlreadyHydrated_Never(p) == FALSE

\* `if (getAssociatedVMIfPresent(element))`: warn and return
AlreadyHydrated(p) == getAssociatedVMIfPresent(p)

\* renderer.defineCustomElement(tagName, isFormAssociated)
defineCustomElement(p) == [p EXCEPT !.defined = @ + 1]

\* createVM(element, Ctor, renderer, options): a VM is made and associated
\* with the element
createVM(p) == [p EXCEPT !.vm = TRUE, !.vms = @ + 1]

\* `for (const [key, value] of Object.entries(props)) element[key] = value`
assignProps(p, props) == [p EXCEPT !.assigned = @ + props]

\* hydrateRoot(vm)
hydrateRoot(p) == [p EXCEPT !.hydrated = TRUE]

\* connectRootElement(element)
connectRootElement(p) == [p EXCEPT !.connected = TRUE]

\* resetShadowRootAndLightDom(element, Ctor)
resetShadowRootAndLightDom(p, light) ==
    [p EXCEPT !.shadowKids = IF p.shadowRoot THEN 0 ELSE @,
              !.lightKids = IF light THEN 0 ELSE @]

\* the statements of the try block that may throw, in their order; fail is
\* the one that throws in this call ("none": none does)
TrySteps == <<"defineCustomElement", "createVM", "assign", "hydrateRoot">>

\* the statements of the catch block that may throw
CatchSteps == <<"createVM", "assign", "connectRootElement">>

\* the step named `name` of a block runs unless the step `fail` of the block,
\* at or before it, throws
Runs(steps, name, fail) ==
    fail = "none" \/ PosIn(steps, name) < PosIn(steps, fail)

\* the try block of hydrateComponent, up to the statement that throws
TryBlock(p, props, fail) ==
    CHOOSE r \in
      {IF Runs(TrySteps, "hydrateRoot", fail) THEN hydrateRoot(p3) ELSE p3 :
        p3 \in {IF Runs(TrySteps, "assign", fail) THEN assignProps(p2, props) ELSE p2 :
          p2 \in {IF Runs(TrySteps, "createVM", fail) THEN createVM(p1) ELSE p1 :
            p1 \in {IF Runs(TrySteps, "defineCustomElement", fail)
                    THEN defineCustomElement(p) ELSE p}}}} : TRUE

\* the catch block of hydrateComponent, up to the statement that throws
CatchBlock(p, light, props, fail) ==
    CHOOSE r \in
      {IF Runs(CatchSteps, "connectRootElement", fail)
       THEN connectRootElement(p3) ELSE p3 :
        p3 \in {IF Runs(CatchSteps, "assign", fail) THEN assignProps(p2, props) ELSE p2 :
          p2 \in {IF Runs(CatchSteps, "createVM", fail) THEN createVM(p1) ELSE p1 :
            p1 \in {resetShadowRootAndLightDom([p EXCEPT !.errors = @ + 1], light)}}}} : TRUE

\* the element with the SSR markup arrives
Load(shadowRoot, shadowKids, lightKids) ==
    /\ ~page.loaded
    /\ ~shadowRoot => shadowKids = 0
    /\ page' = ServerRendered(shadowRoot, shadowKids, lightKids)
    /\ UNCHANGED <<codegenVars, dom>>

\* hydrateComponent(element, Ctor, props). valid: "ok", or the parameter the
\* checks reject; light: Ctor.renderMode === 'light'; props: the number of
\* entries of props; fail, fail2: the statement of the try block, of the
\* catch block, that throws in this call.
HydrateComponent(valid, light, props, fail, fail2) ==
    /\ page.loaded
    /\ page.calls < MaxCalls
    /\ fail = "assign" => props > 0
    /\ fail2 = "assign" => props > 0
    /\ fail = "none" => fail2 = "none"
    /\ (valid # "ok" \/ AlreadyHydrated(page)) => fail = "none"
    /\ \E p \in {[page EXCEPT !.calls = @ + 1]} :
        \E call \in {[outcome |-> "returned", failed |-> fail, light |-> light,
                      props |-> props]} :
          page' =
            IF valid # "ok"
            THEN [p EXCEPT !.last = [call EXCEPT !.outcome = "TypeError"]]
            ELSE IF AlreadyHydrated(p)
            THEN [p EXCEPT !.warnings = @ + 1,
                           !.last = [call EXCEPT !.outcome = "warned"]]
            ELSE IF fail = "none"
            THEN [TryBlock(p, props, fail) EXCEPT !.last = call]
            ELSE [CatchBlock(TryBlock(p, props, fail), light, props, fail2)
                    EXCEPT !.last = IF fail2 = "none" THEN call
                                    ELSE [call EXCEPT !.outcome = "threw"]]
    /\ UNCHANGED <<codegenVars, dom>>

\* ---------------------------------------------------------------- actions
\* the walk takes one step: the first compilation's steps make the IR, the
\* second compilation walks the same IR.
Walk(step) ==
    IF run = 1
    THEN /\ ir' = Append(ir, step)
         /\ UNCHANGED pos
    ELSE /\ pos <= Len(ir)
         /\ ir[pos] = step
         /\ pos' = pos + 1
         /\ UNCHANGED ir

NoCode == [body |-> <<>>, fns |-> <<>>, refs |-> <<>>, keys |-> <<>>]

\* the generated code: the render function's statements, the helper function
\* of every scope, what every property reference reads, the keys.
Code ==
    [body |-> body,
     fns |-> [s \in DOMAIN scope |-> scope[s].mainFn],
     refs |-> [i \in DOMAIN sites |-> Resolve(nodes, cells, sites[i].ref)],
     keys |-> keys]

\* the process starts and `new CodeGen()` has made the root scope
Init ==
    /\ scopes = NextScopeId(0)
    /\ binder \in {"scope", "codegen"}
    /\ phase = "transform"
    /\ scope = <<NewScope(NextScopeId(0), 0)>>
    /\ run = 1
    /\ ir = <<>>
    /\ pos = 1
    /\ first = NoCode
    /\ currentScope = 1
    /\ cells = <<>>
    /\ nodes = <<>>
    /\ sites = <<>>
    /\ usedProps = <<>>
    /\ usedApis = <<>>
    /\ memorizedIds = <<>>
    /\ currentId = 0
    /\ currentKey = 0
    /\ keys = <<>>
    /\ calls = <<>>
    /\ thrown = NoError
    /\ walk = <<>>
    /\ nNodes = 0
    /\ body = <<>>
    /\ dom = NoDom
    /\ page = NoPage

\* the expression of a finished child joins the children of the innermost
\* open element of w (`acc.concat(expr)`)
Concat(w, expr) ==
    IF w = <<>> THEN w
    ELSE [w EXCEPT ![Len(w)].kids = Append(@, expr)]

\* transformText(text) for a text node holding the expression e
TransformText(e) ==
    /\ phase = "transform"
    /\ nNodes < MaxNodes
    /\ Walk(<<"text", e>>)
    /\ \E st0 \in {St} : \E st1 \in {BindExpression(st0, e, Locals(walk))} :
            \E st \in {renderApiCall(st1, "d")} : Commit(st)
    /\ walk' = Concat(walk, Node)
    /\ nNodes' = nNodes + 1
    /\ UNCHANGED <<phase, run, first>>

\* transformText(text) for a text node holding the computed member
\* expression e[1][e[2]]: the walk of bindExpression visits both identifiers
TransformComputed(e) ==
    /\ phase = "transform"
    /\ nNodes < MaxNodes
    /\ Walk(<<"computed", e>>)
    /\ \E st0 \in {St} : \E st1 \in {BindExpression(st0, e, Locals(walk))} :
            \E st \in {renderApiCall(st1, "d")} : Commit(st)
    /\ walk' = Concat(walk, Node)
    /\ nNodes' = nNodes + 1
    /\ UNCHANGED <<phase, run, first>>

\* transformChildren reaches a child element: the scopes of its directives are
\* created, an element builds its data bag, then its children are walked.
TransformChild(tmpl, if, loop, bag) ==
    /\ phase = "transform"
    /\ nNodes < MaxNodes
    /\ tmpl => bag = <<"none">>
    /\ Walk(<<"enter", tmpl, if, loop, bag>>)
    /\ \E st0 \in {St} :
        \E st1 \in {IF if THEN createScope(st0) ELSE st0} :
        \E st2 \in {IF loop # "none" THEN createScope(st1) ELSE st1} :
        \E st \in {IF tmpl THEN st2 ELSE elementDataBag(st2, bag)} : Commit(st)
    /\ walk' = Append(walk, [tmpl |-> tmpl, if |-> if, loop |-> loop, kids |-> <<>>])
    /\ nNodes' = nNodes + 1
    /\ UNCHANGED <<phase, run, first>>

\* TransformChild on the nodes of an IR whose for-of directives stand on
\* templates
EnterElement(tmpl, if, loop, bag) ==
    /\ ~tmpl => loop # "forOf"
    /\ TransformChild(tmpl, if, loop, bag)

\* the IR element an open element of the walk stands for
Element(w, modifier) ==
    [tmpl |-> w.tmpl, if |-> w.if, loop |-> w.loop, kids |-> w.kids,
     ifModifier |-> modifier]

\* the children of the innermost open element are done: its own lowering.
\* An exception leaves transform and generateTemplateFunction.
ExitElement(isArray, test, iterable, modifier) ==
    /\ phase = "transform"
    /\ walk # <<>>
    /\ \E el \in {Element(walk[Len(walk)], modifier)} :
           /\ (isArray = FALSE) \/ (el.tmpl /\ el.if)
           /\ el.if \/ modifier = "true"
           /\ Walk(<<"exit", isArray, test, iterable, modifier>>)
           /\ \E st0 \in {St} :
              \E st \in {IF el.tmpl
                         THEN transformTemplate(st0, el, isArray, test, iterable)
                         ELSE transformElement(st0, el, test, iterable)} :
                /\ Commit(st)
                /\ walk' = Concat(SubSeq(walk, 1, Len(walk) - 1), st.res)
                /\ phase' = IF st.thrown # NoError THEN "failed" ELSE phase
    /\ UNCHANGED <<nNodes, run, first>>

\* --------------------------------------------------------------- dumpScope
\* names of the records of a usedProps map
Names(used) == {used[i].name : i \in DOMAIN used}

Children(sc, s) == {sc[s].childScopes[i] : i \in DOMAIN sc[s].childScopes}

\* (mutant) only the direct children's own names are aggregated
aggregated_ChildrenOnly(sc, s) ==
    IF sc[s].cachedAggregatedProps.defined
    THEN sc[s].cachedAggregatedProps.names
    ELSE UNION {Names(sc[c].usedProps) : c \in Children(sc, s)}

\* get aggregatedPropNamesUsedInChildScopes(): the value the getter returns
\* on scope s of the scope table sc.
RECURSIVE aggregatedPropNamesUsedInChildScopes(_, _)
aggregatedPropNamesUsedInChildScopes(sc, s) ==
    IF sc[s].cachedAggregatedProps.defined
    THEN sc[s].cachedAggregatedProps.names
    ELSE UNION {Names(sc[c].usedProps)
                    \cup aggregatedPropNamesUsedInChildScopes(sc, c) :
                c \in Children(sc, s)}

\* the scopes whose getter body runs when the getter is read on scope s
RECURSIVE Computes(_, _)
Computes(sc, s) ==
    IF sc[s].cachedAggregatedProps.defined THEN {}
    ELSE {s} \cup UNION {Computes(sc, c) : c \in Children(sc, s)}

\* `this._cachedAggregatedProps = aggregatedScope`
Memoize(value) == Defined(value)

\* the scope table after the getter was read on scope s
ReadAggregated(sc, s) ==
    [d \in DOMAIN sc |->
        IF d \in Computes(sc, s)
        THEN [sc[d] EXCEPT
                !.cachedAggregatedProps =
                    Memoize(aggregatedPropNamesUsedInChildScopes(sc, d)),
                !.computed = @ + 1]
        ELSE sc[d]]

\* (mutant) hoist-on-reuse only: use in the child scopes is not looked at
HoistHere_OnlyReuse(instances, usedInChildScopes) == instances > 1

\* (mutant) any use at all hoists
HoistHere_AnyUse(instances, usedInChildScopes) == instances >= 1

\* the test of dumpScope's second branch
HoistHere(instances, usedInChildScopes) == instances > 1 \/ usedInChildScopes

\* (mutant) the child scopes get the map this scope inherited
ScopeVarsOfChildren_Inherited(scopeVars, nextScope) == scopeVars

\* the map handed to the dump of the child scopes
ScopeVarsOfChildren(scopeVars, nextScope) == nextScope

\* dumpScope's loop over scope.usedProps from record i on; fr is the
\* activation record (scopeVars, nextScope, variablesInThisScope).
RECURSIVE DumpUsedProps(_, _, _)
DumpUsedProps(st, fr, i) ==
    LET used == st.scope[fr.scope].usedProps
    IN  IF i > Len(used) THEN [st |-> st, fr |-> fr]
        ELSE
        LET propData == used[i]
            generatedNameInScope == fr.scopeVars[propData.name]
            st1 == IF propData.instances > 1 THEN st
                   ELSE [st EXCEPT !.scope = ReadAggregated(st.scope, fr.scope)]
            inChildScopes ==
                propData.name \in
                    aggregatedPropNamesUsedInChildScopes(st1.scope, fr.scope)
        IN  IF generatedNameInScope # NoAlias
            THEN DumpUsedProps(
                    swap(st, propData.usage, Identifier(generatedNameInScope)),
                    fr, i + 1)
            ELSE IF HoistHere(propData.instances, inChildScopes)
            THEN DumpUsedProps(
                    swap(st1, propData.usage, Identifier(propData.gen)),
                    [fr EXCEPT !.nextScope[propData.name] = propData.gen,
                               !.variablesInThisScope =
                                    Append(@, <<propData.name, propData.gen>>)],
                    i + 1)
            ELSE DumpUsedProps(st1, fr, i + 1)

Frame(s, scopeVars) ==
    [scope |-> s, scopeVars |-> scopeVars, nextScope |-> scopeVars,
     variablesInThisScope |-> <<>>]

\* (mutant) body.push(stmt)
Unshift_Push(st, target, stmt) ==
    IF target = 0
    THEN [st EXCEPT !.body = @ \o <<stmt>>]
    ELSE [st EXCEPT !.scope[target].mainFn.body = @ \o <<stmt>>]

\* (mutant) every statement goes to the render function's own statements
Unshift_Root(st, target, stmt) == [st EXCEPT !.body = <<stmt>> \o @]

\* body.unshift(stmt) on the body a dumpScope activation was given: the render
\* function's statements (target 0) or the body of scope target's mainFn
\* (`childScope.mainFn?.body!.body!`, undefined when mainFn is null).
Unshift(st, target, stmt) ==
    IF target = 0
    THEN [st EXCEPT !.body = <<stmt>> \o @]
    ELSE IF st.scope[target].mainFn = NoFn
    THEN [st EXCEPT !.thrown = "TypeError"]
    ELSE [st EXCEPT !.scope[target].mainFn.body = <<stmt>> \o @]

\* dumpScope(scope, body, scopeVars): the loop over usedProps, the loop over
\* childScopes (DumpChildScopes), the destructuring of the variables defined
\* in this scope.
RECURSIVE dumpScope(_, _, _, _)
RECURSIVE DumpChildScopes(_, _, _, _, _)
dumpScope(st, s, target, scopeVars) ==
    LET r == DumpUsedProps(st, Frame(s, scopeVars), 1)
        st1 == DumpChildScopes(r.st, s, target,
                    ScopeVarsOfChildren(scopeVars, r.fr.nextScope), 1)
        variablesInThisScope == r.fr.variablesInThisScope
    IN  IF Len(variablesInThisScope) > 0
        THEN Unshift(st1, target, VariableDeclaration("$cmp", variablesInThisScope))
        ELSE st1

\* the turns of `for (const childScope of scope.childScopes)` from child i on
DumpChildScopes(st, s, target, nextScope, i) ==
    IF i > Len(st.scope[s].childScopes) THEN st
    ELSE LET childScope == st.scope[s].childScopes[i]
             st1 == Unshift(st, target,
                        FunctionDeclaration(childScope, st.scope[childScope].mainFn.id))
         IN  DumpChildScopes(dumpScope(st1, childScope, childScope, nextScope),
                             s, target, nextScope, i + 1)

\* generateTemplateFunction once transform has returned: the API destructuring,
\* the destructuring of getUsedComponentProperties(), dumpScope on
\* codeGen.currentScope, the slot set (CodeGen.usedSlots is never written, so
\* it is never destructured), the memorized handlers, the return statement.
\* The call passes no scopeVars; the dump of the root starts from an empty map.
generateTemplateFunction(st) ==
    LET api == VariableDeclaration("$api", st.usedApis)
        foo == getUsedComponentProperties(st.usedProps)
        st1 == [st EXCEPT !.body =
                    IF Len(foo) > 0
                    THEN <<api, VariableDeclaration("$cmp", foo)>>
                    ELSE <<api>>]
        st2 == dumpScope(st1, st.currentScope, 0, [p \in Props |-> NoAlias])
    IN  [st2 EXCEPT !.body =
            @ \o (IF Len(st.memorizedIds) > 0
                  THEN <<VariableDeclaration("$ctx", st.memorizedIds)>>
                  ELSE <<>>)
              \o <<ReturnStatement>>]

GenerateTemplateFunction ==
    /\ phase = "transform"
    /\ walk = <<>>
    /\ run = 2 => pos > Len(ir)
    /\ \E st \in {generateTemplateFunction(St)} :
        /\ Commit(st)
        /\ phase' = IF st.thrown # NoError THEN "failed" ELSE "done"
    /\ UNCHANGED <<walk, nNodes, run, ir, pos, first>>

\* the same IR is compiled again in the same process: `new CodeGen()` makes
\* fresh tables and counters and a new root scope; the module-level counter
\* `scopes` goes on.
Recompile ==
    /\ phase = "done"
    /\ run = 1
    /\ first' = Code
    /\ run' = 2
    /\ pos' = 1
    /\ scopes' = NextScopeId(scopes)
    /\ scope' = <<NewScope(NextScopeId(scopes), 0)>>
    /\ currentScope' = 1
    /\ cells' = <<>>
    /\ nodes' = <<>>
    /\ sites' = <<>>
    /\ usedProps' = <<>>
    /\ usedApis' = <<>>
    /\ memorizedIds' = <<>>
    /\ currentId' = 0
    /\ currentKey' = 0
    /\ keys' = <<>>
    /\ calls' = <<>>
    /\ thrown' = NoError
    /\ walk' = <<>>
    /\ nNodes' = 0
    /\ body' = <<>>
    /\ phase' = "transform"
    /\ UNCHANGED <<binder, ir, dom, page>>

Next ==
    \/ \E e \in Texts : TransformText(e)
    \/ \E tmpl \in BOOLEAN, if \in BOOLEAN, loop \in Loops, bag \in Bags :
            EnterElement(tmpl, if, loop, bag)
    \/ \E isArray \in BOOLEAN, test \in DirectiveProps, iterable \in DirectiveProps,
          modifier \in {"true"} :
            ExitElement(isArray, test, iterable, modifier)
    \/ GenerateTemplateFunction

Spec == Init /\ [][Next]_vars

\* two compilations of one IR in one process
NextTwice == Next \/ Recompile

SpecTwice == Init /\ [][NextTwice]_vars

\* one compilation of an IR whose if directives carry any modifier and whose
\* elements may carry an explicit key
NextIf ==
    \/ \E e \in {<<"a">>} : TransformText(e)
    \/ \E tmpl \in BOOLEAN, if \in BOOLEAN, loop \in Loops, bag \in KeyBags :
            EnterElement(tmpl, if, loop, bag)
    \/ \E isArray \in BOOLEAN, test \in DirectiveProps, iterable \in DirectiveProps,
          modifier \in Modifiers :
            ExitElement(isArray, test, iterable, modifier)
    \/ GenerateTemplateFunction

SpecIf == Init /\ [][NextIf]_vars

\* one compilation of an IR whose texts hold member expressions and names of
\* loop bindings
NextExpr ==
    \/ \E e \in TextExprs : TransformText(e)
    \/ \E e \in ComputedExprs : TransformComputed(e)
    \/ \E tmpl \in BOOLEAN, if \in BOOLEAN, loop \in Loops, bag \in {<<"none">>} :
            EnterElement(tmpl, if, loop, bag)
    \/ \E isArray \in BOOLEAN, test \in DirectiveProps, iterable \in DirectiveProps,
          modifier \in {"true"} :
            ExitElement(isArray, test, iterable, modifier)
    \/ GenerateTemplateFunction

SpecExpr == Init /\ [][NextExpr]_vars

\* one compilation of an IR whose for:each loops declare an index or not
NextFor ==
    \/ \E e \in {<<"a">>} : TransformText(e)
    \/ \E tmpl \in BOOLEAN, if \in BOOLEAN, loop \in {"none"} \cup ForEachLoops,
          bag \in {<<"none">>} :
            EnterElement(tmpl, if, loop, bag)
    \/ \E isArray \in BOOLEAN, test \in DirectiveProps, iterable \in DirectiveProps,
          modifier \in {"true"} :
            ExitElement(isArray, test, iterable, modifier)
    \/ GenerateTemplateFunction

SpecFor == Init /\ [][NextFor]_vars

\* one compilation of an IR whose elements and templates carry any
\* combination of if, for:each and for-of directives
NextNodes ==
    \/ \E e \in {<<"a">>} : TransformText(e)
    \/ \E tmpl \in BOOLEAN, if \in BOOLEAN, loop \in Loops, bag \in {<<"none">>} :
            TransformChild(tmpl, if, loop, bag)
    \/ \E isArray \in BOOLEAN, test \in DirectiveProps, iterable \in DirectiveProps,
          modifier \in {"true"} :
            ExitElement(isArray, test, iterable, modifier)
    \/ GenerateTemplateFunction

SpecNodes == Init /\ [][NextNodes]_vars

\* a document in which elements are made by createElement and moved in and
\* out of one parent node
NextDom ==
    \/ \E upgrades \in BOOLEAN : CreateElement(upgrades)
    \/ \E n \in 1..MaxElements : AppendChild(n)
    \/ \E n \in 1..MaxElements, ref \in 0..MaxElements : InsertBefore(n, ref)
    \/ \E n \in 1..MaxElements : RemoveChild(n)
    \/ \E n \in 1..MaxElements, old \in 1..MaxElements : ReplaceChild(n, old)

SpecDom == Init /\ [][NextDom]_vars

\* a server-rendered root element on which hydrateComponent is called
NextHydrate ==
    \/ \E shadowRoot \in BOOLEAN, shadowKids \in 0..MaxKids, lightKids \in 0..MaxKids :
            Load(shadowRoot, shadowKids, lightKids)
    \/ \E valid \in {"ok", "Ctor", "props"}, light \in BOOLEAN, props \in 0..1,
          fail \in {"none"} \cup {TrySteps[i] : i \in DOMAIN TrySteps},
          fail2 \in {"none"} \cup {CatchSteps[i] : i \in DOMAIN CatchSteps} :
            HydrateComponent(valid, light, props, fail, fail2)

SpecHydrate == Init /\ [][NextHydrate]_vars

\* ------------------------------------------------- reading the output
\* the scope generateTemplateFunction hands to dumpScope with the render
\* function's own statements
Root == 1

RECURSIVE Ancestors(_)
Ancestors(s) ==
    IF scope[s].parentScope = 0 THEN {}
    ELSE {scope[s].parentScope} \cup Ancestors(scope[s].parentScope)

Descendants(s) == {d \in DOMAIN scope : s \in Ancestors(d)}

BodyOf(s) == IF s = Root THEN body ELSE scope[s].mainFn.body

\* the (name, alias) pairs the statements of scope s destructure from $cmp
HoistedPairs(s) ==
    UNION {{BodyOf(s)[k].props[j] : j \in DOMAIN BodyOf(s)[k].props} :
           k \in {k \in DOMAIN BodyOf(s) :
                    /\ BodyOf(s)[k].type = "VariableDeclaration"
                    /\ BodyOf(s)[k].from = "$cmp"}}

HoistedNames(s) == {pr[1] : pr \in HoistedPairs(s)}

\* what the proxy c wraps now
Target(c) == nodes[cells[c]]

\* what the i-th reference site of the output reads
SiteExpr(i) == Resolve(nodes, cells, sites[i].ref)

SitesOf(s, name) ==
    {i \in DOMAIN sites : sites[i].scope = s /\ sites[i].name = name}

UsedBelow(s, name) ==
    \E d \in Descendants(s) : name \in Names(scope[d].usedProps)

Inherited(s, name) == \E a \in Ancestors(s) : name \in HoistedNames(a)

Dumped == phase = "done" /\ binder = "scope"

C2_InheritedAliasNoRebinding ==
    Dumped =>
        /\ \A s \in DOMAIN scope : \A i \in DOMAIN scope[s].usedProps :
            LET r == scope[s].usedProps[i]
            IN  \A a \in Ancestors(s) : \A pr \in HoistedPairs(a) :
                    pr[1] = r.name =>
                        /\ Target(r.usage) = Identifier(pr[2])
                        /\ r.name \notin HoistedNames(s)
        /\ \A s \in DOMAIN scope : \A name \in Props :
            Cardinality({a \in Ancestors(s) \cup {s} :
                            name \in HoistedNames(a)}) <= 1

\* C2 witness: a scope used, more than once, a name its grandparent or parent
\* had hoisted.
C2_Witness ==
    /\ Dumped
    /\ \E s \in DOMAIN scope : \E i \in DOMAIN scope[s].usedProps :
            /\ scope[s].usedProps[i].instances > 1
            /\ Inherited(s, scope[s].usedProps[i].name)
            /\ Target(scope[s].usedProps[i].usage).type = "Identifier"

C4_NoHoistOfSingleUse ==
    phase = "done" =>
        \A name \in Props :
            LET refs == {i \in DOMAIN sites : sites[i].name = name}
            IN  Cardinality(refs) = 1 =>
                    /\ \A s \in DOMAIN scope : name \notin HoistedNames(s)
                    /\ \A i \in refs : SiteExpr(i) = MemberExpression(name)

\* C4 witness: one property is referenced once, in a scope with child scopes,
\* while another one is hoisted.
C4_Witness ==
    /\ Dumped
    /\ \E name \in Props :
            /\ Cardinality({i \in DOMAIN sites : sites[i].name = name}) = 1
            /\ \E i \in DOMAIN sites :
                    sites[i].name = name /\ scope[sites[i].scope].childScopes # <<>>
    /\ \E s \in DOMAIN scope : HoistedNames(s) # {}

\* the usage record of name in scope s
RecOf(s, name) == scope[s].usedProps[IndexOf(scope[s].usedProps, name)]

\* name is referenced once in s, twice or more in its child c, and no ancestor
\* of s hoisted it
OnceHereMoreInChild(s, c, name) ==
    /\ c \in Children(scope, s)
    /\ name \in Names(scope[s].usedProps)
    /\ name \in Names(scope[c].usedProps)
    /\ RecOf(s, name).instances = 1
    /\ RecOf(c, name).instances >= 2
    /\ ~Inherited(s, name)

C6_OneRecordPerScopeAndName ==
    binder = "scope" =>
        /\ \A i \in DOMAIN sites : \A j \in DOMAIN sites :
            (sites[i].scope = sites[j].scope /\ sites[i].name = sites[j].name) =>
                /\ sites[i].proxy = sites[j].proxy
                /\ sites[i].ref = sites[j].ref
                /\ SiteExpr(i) = SiteExpr(j)
        /\ \A s \in DOMAIN scope :
            \A i \in DOMAIN scope[s].usedProps : \A j \in DOMAIN scope[s].usedProps :
                /\ scope[s].usedProps[i].name = scope[s].usedProps[j].name => i = j
                /\ scope[s].usedProps[i].instances =
                        Cardinality(SitesOf(s, scope[s].usedProps[i].name))

\* C6 witness: a property bound twice in one scope, after flattening.
C6_Witness ==
    /\ Dumped
    /\ \E s \in DOMAIN scope : \E name \in Props :
            /\ Cardinality(SitesOf(s, name)) >= 2
            /\ RecOf(s, name).instances >= 2

\* C7: in every step, each reference site reads what its proxy wraps after
\* the step, a retargeted proxy wraps a new identifier, and no object that
\* existed before the step (the previously wrapped targets among them) is
\* modified.
C7_SwapObservedAtEverySite ==
    [][/\ \A n \in DOMAIN nodes : n \in DOMAIN nodes' => nodes'[n] = nodes[n]
       /\ \A i \in DOMAIN sites' :
            Resolve(nodes', cells', sites'[i].ref) = nodes'[cells'[sites'[i].proxy]]
       /\ \A c \in DOMAIN cells :
            (c \in DOMAIN cells' /\ cells'[c] # cells[c]) =>
                /\ cells'[c] \notin DOMAIN nodes
                /\ nodes'[cells'[c]].type = "Identifier"]_vars

\* C7 witness: a proxy was retargeted with one site handed out before the
\* swap and one after it, and both read the alias.
C7_Witness ==
    /\ binder = "codegen"
    /\ \E c \in DOMAIN cells :
            /\ Target(c).type = "Identifier"
            /\ Cardinality({i \in DOMAIN sites : sites[i].proxy = c}) >= 3
            /\ \A i \in DOMAIN sites : sites[i].proxy = c => SiteExpr(i) = Target(c)

\* the names used in the strict descendants of scope s
DescendantNames(s) == UNION {Names(scope[d].usedProps) : d \in Descendants(s)}

\* C8: a scope's cached aggregated-usage set is the union of the names used in
\* its strict descendants, and the getter's body ran at most once per scope.
C8_AggregatedIsDescendantUnion ==
    \A s \in DOMAIN scope :
        /\ scope[s].computed <= 1
        /\ scope[s].cachedAggregatedProps.defined <=> scope[s].computed = 1
        /\ scope[s].cachedAggregatedProps.defined =>
                /\ phase = "done"
                /\ scope[s].cachedAggregatedProps.names = DescendantNames(s)

\* C8 witness: a cached set holds a name used in a grandchild only, and a
\* cached set leaves out a name used in the scope itself.
C8_Witness ==
    /\ \E s \in DOMAIN scope : \E name \in scope[s].cachedAggregatedProps.names :
            \A c \in Children(scope, s) : name \notin Names(scope[c].usedProps)
    /\ \E s \in DOMAIN scope :
            /\ scope[s].cachedAggregatedProps.defined
            /\ Names(scope[s].usedProps) \ scope[s].cachedAggregatedProps.names # {}

\* C9: the second compilation of an IR generates the code the first one did.
C9_SameCodeTwice == (run = 2 /\ phase = "done") => Code = first

IsDecl(stmt, from) == stmt.type = "VariableDeclaration" /\ stmt.from = from

\* the place C10 gives a top-level statement
StatedRank(stmt) ==
    IF IsDecl(stmt, "$api") THEN 1
    ELSE IF IsDecl(stmt, "$cmp") THEN 2
    ELSE IF stmt.type = "FunctionDeclaration" THEN 3
    ELSE IF IsDecl(stmt, "$slotset") THEN 4
    ELSE IF IsDecl(stmt, "$ctx") THEN 5
    ELSE 6

\* C10 as stated: API destructuring, root hoisting, helper declarations, slot
\* set, memoized handlers, return.
C10_StatedOrder ==
    phase = "done" =>
        \A i \in DOMAIN body : \A j \in DOMAIN body :
            i < j => StatedRank(body[i]) <= StatedRank(body[j])

\* the place the code gives a top-level statement: the root scope's hoisting
\* (aliases $cv<scope>_<n>), the helper declarations, the API destructuring,
\* the CodeGen-level properties (aliases $cv<n>), the memoized handlers, the
\* return.
CodeRank(stmt) ==
    IF IsDecl(stmt, "$cmp") THEN (IF Len(stmt.props[1][2]) = 3 THEN 1 ELSE 4)
    ELSE IF stmt.type = "FunctionDeclaration" THEN 2
    ELSE IF IsDecl(stmt, "$api") THEN 3
    ELSE IF IsDecl(stmt, "$ctx") THEN 5
    ELSE IF stmt.type = "ReturnStatement" THEN 6
    ELSE 0

\* C10 amended: the render function's statements are, in this order, the
\* destructuring of the root scope's hoisted properties (if any), the helper
\* declarations of the root's child scopes, the API destructuring, the
\* destructuring of the CodeGen-level used properties (if any), the memoized
\* handlers (if any), the return; only helper declarations repeat.
C10_CodeOrder ==
    phase = "done" =>
        /\ \A i \in DOMAIN body : CodeRank(body[i]) > 0
        /\ \A i \in DOMAIN body : \A j \in DOMAIN body :
            i < j => /\ CodeRank(body[i]) <= CodeRank(body[j])
                     /\ CodeRank(body[i]) = CodeRank(body[j]) => CodeRank(body[i]) = 2
        /\ \E i \in DOMAIN body : CodeRank(body[i]) = 3
        /\ CodeRank(body[Len(body)]) = 6
        /\ Cardinality({i \in DOMAIN body : CodeRank(body[i]) = 2}) =
                Len(scope[Root].childScopes)

\* C10 witness: a render function with root hoisting, two helper
\* declarations, the API destructuring, memoized handlers and the return.
C10_Witness ==
    /\ phase = "done"
    /\ \A r \in {1, 2, 3, 5, 6} : \E i \in DOMAIN body : CodeRank(body[i]) = r
    /\ Cardinality({i \in DOMAIN body : CodeRank(body[i]) = 2}) = 2

\* the places of the declaration of child scope c's helper in the statement
\* list of scope s
FnPos(s, c) ==
    {k \in DOMAIN BodyOf(s) :
        /\ BodyOf(s)[k].type = "FunctionDeclaration"
        /\ BodyOf(s)[k].fn = c}

\* C11 as stated: the helper declarations of a scope's children stand in the
\* scope's statement list in child-creation order.
C11_CreationOrder ==
    phase = "done" =>
        \A s \in DOMAIN scope :
            \A i \in DOMAIN scope[s].childScopes : \A j \in DOMAIN scope[s].childScopes :
                i < j =>
                    \A ki \in FnPos(s, scope[s].childScopes[i]) :
                        \A kj \in FnPos(s, scope[s].childScopes[j]) : ki < kj

\* C11 amended: every child scope's helper is declared once in its parent's
\* statement list, and the declarations stand in reverse child-creation order:
\* the declaration of ci follows the declaration of cj whenever i < j.
C11_ReverseCreationOrder ==
    phase = "done" =>
        \A s \in DOMAIN scope :
            /\ \A i \in DOMAIN scope[s].childScopes :
                    Cardinality(FnPos(s, scope[s].childScopes[i])) = 1
            /\ \A i \in DOMAIN scope[s].childScopes : \A j \in DOMAIN scope[s].childScopes :
                i < j =>
                    \A ki \in FnPos(s, scope[s].childScopes[i]) :
                        \A kj \in FnPos(s, scope[s].childScopes[j]) : ki > kj

\* C11 witness: a dumped scope with two child scopes, both declared.
C11_Witness ==
    /\ phase = "done"
    /\ \E s \in DOMAIN scope :
            /\ Len(scope[s].childScopes) = 2
            /\ FnPos(s, scope[s].childScopes[1]) # {}
            /\ FnPos(s, scope[s].childScopes[2]) # {}

\* the (name, alias) pairs of the records of scope s that read their own alias
HoistedHere(s) ==
    {<<scope[s].usedProps[i].name, scope[s].usedProps[i].gen>> :
        i \in {i \in DOMAIN scope[s].usedProps :
                Target(scope[s].usedProps[i].usage) =
                    Identifier(scope[s].usedProps[i].gen)}}

\* the places of the destructurings from the component instance in scope s
CmpDecls(s) == {k \in DOMAIN BodyOf(s) : IsDecl(BodyOf(s)[k], "$cmp")}

\* C12: a dumped scope has one destructuring statement from the component
\* instance when it hoisted a property and none otherwise; the statement is
\* the first of the scope's body and binds exactly the hoisted properties,
\* each once, with its alias.
C12_OneDestructuringFirst ==
    Dumped =>
        \A s \in DOMAIN scope :
            /\ HoistedHere(s) = {} => CmpDecls(s) = {}
            /\ HoistedHere(s) # {} =>
                /\ CmpDecls(s) = {1}
                /\ HoistedPairs(s) = HoistedHere(s)
                /\ Len(BodyOf(s)[1].props) = Cardinality(HoistedHere(s))

\* C12 witness: a helper body that starts with its destructuring, followed by
\* a nested helper declaration and the return, and a scope that used a
\* property and destructures nothing.
C12_Witness ==
    /\ Dumped
    /\ \E s \in DOMAIN scope \ {Root} :
            /\ CmpDecls(s) = {1}
            /\ \E k \in DOMAIN BodyOf(s) : BodyOf(s)[k].type = "FunctionDeclaration"
            /\ BodyOf(s)[Len(BodyOf(s))].type = "ReturnStatement"
    /\ \E s \in DOMAIN scope :
            /\ scope[s].usedProps # <<>>
            /\ CmpDecls(s) = {}

\* values a test expression may take when the render function runs
TestValues == {"true", "false", "1", "0", "null", "text"}

\* JavaScript's ToBoolean on those values
Truthy(v) == v \in {"true", "1", "text"}

\* the value of the helper's test `t`, `!t` or `t === true` for the argument v
EvalLeft(left, v) ==
    IF left = "t" THEN Truthy(v)
    ELSE IF left = "!t" THEN ~Truthy(v)
    ELSE v = "true"

\* the conditional expression the if helper fn returns: test, consequent,
\* alternate (the return is the last statement of the helper)
Cond(fn) == fn.body[Len(fn.body)].props

\* what the call of the if helper fn returns for the argument v
CallIf(fn, v) ==
    LET cond == Cond(fn)
    IN  IF EvalLeft(cond[1], v) THEN cond[2] ELSE cond[3]

\* the step is the lowering of an element that carries an if directive
ExitsIf ==
    /\ Len(ir') = Len(ir) + 1
    /\ ir'[Len(ir')][1] = "exit"
    /\ walk # <<>>
    /\ walk[Len(walk)].if

\* C13: the helper generated for an if directive returns the real node(s) for
\* a test value exactly when: modifier true and the value is truthy; modifier
\* false and the value is falsy; modifier strict-true and the value is the
\* literal true (1 selects the placeholder).
C13_TruthTable ==
    [][(ExitsIf /\ ir'[Len(ir')][5] \in {"true", "false", "strict-true"}) =>
        LET fn == scope'[currentScope].mainFn
            modifier == ir'[Len(ir')][5]
        IN  /\ fn.kind = "if"
            /\ Cond(fn)[2] # Cond(fn)[3]
            /\ \A v \in TestValues :
                (CallIf(fn, v) = Cond(fn)[2]) <=>
                    \/ modifier = "true" /\ Truthy(v)
                    \/ modifier = "false" /\ ~Truthy(v)
                    \/ modifier = "strict-true" /\ v = "true"]_vars

\* C13 witness: a strict-true helper that returns the placeholder for 1 and
\* the node for true, and a helper of modifier false.
C13_Witness ==
    /\ \E s \in DOMAIN scope :
            /\ scope[s].mainFn.kind = "if"
            /\ Cond(scope[s].mainFn)[1] = "t===true"
            /\ CallIf(scope[s].mainFn, "1") = Cond(scope[s].mainFn)[3]
            /\ CallIf(scope[s].mainFn, "true") = Cond(scope[s].mainFn)[2]
    /\ \E s \in DOMAIN scope :
            /\ scope[s].mainFn.kind = "if"
            /\ Cond(scope[s].mainFn)[1] = "!t"

\* an if directive with a modifier other than true, false, strict-true has
\* been lowered
UnknownModifierSeen ==
    \E k \in DOMAIN ir :
        /\ ir[k][1] = "exit"
        /\ ir[k][5] \notin {"true", "false", "strict-true"}

\* C14: once a node whose if directive carries an unknown modifier is lowered
\* the compilation has failed with UNKNOWN_IF_MODIFIER, a failed compilation
\* has produced no statement of a render function, and a compilation that
\* returned a render function met no unknown modifier.
C14_UnknownModifierAborts ==
    /\ UnknownModifierSeen <=> phase = "failed"
    /\ phase = "failed" => (thrown = "UNKNOWN_IF_MODIFIER" /\ body = <<>>)
    /\ phase # "failed" => thrown = NoError
    /\ phase = "done" => ~UnknownModifierSeen

\* C14 witness: the compilation failed after part of the template had been
\* lowered (a key given, a scope made).
C14_Witness ==
    /\ phase = "failed"
    /\ thrown = "UNKNOWN_IF_MODIFIER"
    /\ Len(scope) > 1
    /\ keys # <<>>

\* C15: the falsy placeholder of a lowered conditional matches the true
\* branch: an array of one null per element for an array expression, the
\* literal null for a single node, and the empty array when the conditional is
\* applied to a template whose children were lowered to a non-array
\* expression.
C15_FalsyMatchesArity ==
    [][(ExitsIf /\ thrown' = NoError) =>
        LET cond == Cond(scope'[currentScope].mainFn)
            el == walk[Len(walk)]
            isArray == ir'[Len(ir')][2]
        IN  /\ cond[2][1] = "array" =>
                    cond[3] = <<"arrayOf", cond[2][2], Null>>
            /\ (cond[2][1] # "array" /\ ~(el.tmpl /\ ~isArray)) => cond[3] = Null
            /\ (el.tmpl /\ ~isArray) => (cond[2] = Node /\ cond[3] = ArrayOf(0))
            /\ (el.tmpl /\ isArray /\ Len(el.kids) # 1) =>
                    cond[2] = ArrayOf(Len(el.kids))
            /\ ~el.tmpl => cond[2] = Node]_vars

\* C15 witness: a template conditional over an array of one element (itself
\* a spread conditional) whose placeholder is an array of one null.
C15_Witness ==
    \E s \in DOMAIN scope :
        /\ scope[s].mainFn.kind = "if"
        /\ Cond(scope[s].mainFn)[2] = ArrayOf(1)
        /\ Cond(scope[s].mainFn)[3][1] = "arrayOf"
        /\ Cond(scope[s].mainFn)[3][2] = 1

\* the steps of the walk that entered an element (not a template)
ElementsEntered == {k \in DOMAIN ir : ir[k][1] = "enter" /\ ~ir[k][2]}

\* the steps that entered an element with an explicit key
KeyedEntered == {k \in ElementsEntered : ir[k][5][1] = "key"}

\* C16: the i-th element of the document (pre-order) has key number i - 1:
\* one counter from 0, one step per element, explicit key or not (an explicit
\* key takes its discriminator from the same counter, in a key-primitive
\* call), so no two elements share a key number.
C16_KeysFromOneCounter ==
    /\ Len(keys) = Cardinality(ElementsEntered)
    /\ \A i \in DOMAIN keys : keys[i] = i - 1
    /\ currentKey = Len(keys)
    /\ Cardinality({i \in DOMAIN calls : calls[i] = "k"}) = Cardinality(KeyedEntered)

\* C16 witness: two elements, the second with an explicit key.
C16_Witness ==
    /\ keys = <<0, 1>>
    /\ \E k \in KeyedEntered : \E j \in ElementsEntered : j < k
    /\ phase = "done"

\* the members of a sequence in the order of their first occurrence
RECURSIVE FirstUses(_)
FirstUses(seq) ==
    IF seq = <<>> THEN <<>>
    ELSE LET rest == FirstUses(SubSeq(seq, 1, Len(seq) - 1))
             last == seq[Len(seq)]
         IN  IF \E i \in DOMAIN rest : rest[i] = last THEN rest
             ELSE Append(rest, last)

\* C17: the primitives recorded as used are those of the emitter calls made so
\* far, each once, in first-use order, and the API destructuring of the
\* render function binds exactly them in that order.
C17_UsedApisFirstUseOrder ==
    /\ usedApis = FirstUses(calls)
    /\ phase = "done" =>
        /\ Cardinality({k \in DOMAIN body : IsDecl(body[k], "$api")}) = 1
        /\ \A k \in DOMAIN body :
                IsDecl(body[k], "$api") => body[k].props = FirstUses(calls)

\* C17 witness: a render function after repeated calls of one primitive and
\* calls of three primitives.
C17_Witness ==
    /\ phase = "done"
    /\ Len(usedApis) >= 3
    /\ Len(calls) > Len(usedApis)
    /\ usedApis[1] # "h"

\* scopes created by a step of the walk
ScopesMade(step) ==
    IF step[1] # "enter" THEN 0
    ELSE (IF step[3] THEN 1 ELSE 0) + (IF step[4] # "none" THEN 1 ELSE 0)

\* number of scopes that exist before the k-th step of the walk
RECURSIVE ScopesBefore(_)
ScopesBefore(k) ==
    IF k = 1 THEN 1 ELSE ScopesBefore(k - 1) + ScopesMade(ir[k - 1])

\* the k-th step enters a loop node (no if of its own) whose first child is a
\* node with an if directive (and no loop)
IfInsideLoop(k) ==
    /\ k + 1 \in DOMAIN ir
    /\ ir[k][1] = "enter" /\ ~ir[k][3] /\ ir[k][4] # "none"
    /\ ir[k + 1][1] = "enter" /\ ir[k + 1][3] /\ ir[k + 1][4] = "none"

\* C18: for an if node inside a forEach or for-of node the scope of the if is
\* a child of the loop's scope, and after the dump the if helper is declared
\* once, in the body of the loop helper and nowhere else.
C18_IfHelperInsideLoopHelper ==
    phase = "done" =>
        \A k \in DOMAIN ir :
            IfInsideLoop(k) =>
                LET loopScope == ScopesBefore(k) + 1
                    ifScope == loopScope + 1
                IN  /\ scope[loopScope].mainFn.kind \in {"foreach", "forof"}
                    /\ scope[ifScope].mainFn.kind = "if"
                    /\ scope[ifScope].parentScope = loopScope
                    /\ Cardinality(FnPos(loopScope, ifScope)) = 1
                    /\ \A s \in DOMAIN scope \ {loopScope} : FnPos(s, ifScope) = {}

\* C18 witness: a dumped template with an if node inside a loop node.
C18_Witness ==
    /\ phase = "done"
    /\ \E k \in DOMAIN ir : IfInsideLoop(k)

\* the k-th step enters a node that carries an if and a forEach directive
IfAndForEach(k) == ir[k][1] = "enter" /\ ir[k][3] /\ ir[k][4] = "forEach"

\* C19: for a node with an if and a forEach directive the forEach helper
\* contains the if helper and returns its call, the test is bound in the
\* forEach helper's scope and the iterable in the scope that encloses both.
C19_ForEachWrapsIf ==
    phase = "done" =>
        \A k \in DOMAIN ir :
            IfAndForEach(k) =>
                LET forScope == ScopesBefore(k) + 1
                    ifScope == forScope + 1
                IN  /\ scope[forScope].mainFn.kind = "foreach"
                    /\ scope[ifScope].mainFn.kind = "if"
                    /\ scope[ifScope].parentScope = forScope
                    /\ Cardinality(FnPos(forScope, ifScope)) = 1
                    /\ Cond(scope[forScope].mainFn) = <<CallOf(ifScope)>>
                    /\ \E i \in DOMAIN sites : sites[i].scope = forScope
                    /\ \E i \in DOMAIN sites :
                            sites[i].scope = scope[forScope].parentScope

\* the step is the lowering of a text node
TextStep == Len(ir') = Len(ir) + 1 /\ ir'[Len(ir')][1] = "text"

ComputedStep == Len(ir') = Len(ir) + 1 /\ ir'[Len(ir')][1] = "computed"

\* C21: binding value[index] with value and index both component properties
\* binds both identifiers: two references are made, to value and to index.
C21_ComputedIndexBound ==
    [][ComputedStep =>
        LET e == ir'[Len(ir')][2]
        IN  (e[1] \notin Locals(walk) /\ e[2] \notin Locals(walk)) =>
                /\ Len(sites') = Len(sites) + 2
                /\ sites'[Len(sites) + 1].name = e[1]
                /\ sites'[Len(sites) + 2].name = e[2]]_vars

\* the step lowers a node that carries a for:each directive
ExitsForEach ==
    /\ Len(ir') = Len(ir) + 1 /\ ir'[Len(ir')][1] = "exit"
    /\ walk[Len(walk)].loop \in ForEachLoops

\* the scope created for the loop of the innermost open node
LoopScope ==
    IF walk[Len(walk)].if THEN scope[currentScope].parentScope ELSE currentScope

\* C22: lowering a for:each gives the loop's scope a helper with the
\* parameters (item) or (item, index), makes one iterator call whose
\* arguments are the bound iterable and that helper, and binds the iterable
\* in the scope that encloses the loop's scope, never in the loop's scope.
C22_ForEachHelperAndIterable ==
    [][ExitsForEach =>
        LET l == LoopScope
            fn == scope'[l].mainFn
            new == sites'[Len(sites')]
        IN  /\ fn.kind = "foreach"
            /\ fn.params = IF walk[Len(walk)].loop = "forEach"
                           THEN <<"item", "index">> ELSE <<"item">>
            /\ calls' = Append(IF walk[Len(walk)].tmpl THEN calls
                               ELSE Append(calls, "h"), "i")
            /\ Len(sites') > Len(sites)
            /\ new.name = ir'[Len(ir')][4]
            /\ new.scope = scope[l].parentScope
            /\ currentScope' = scope[l].parentScope
            /\ ~walk[Len(walk)].if =>
                    /\ scope'[l].usedProps = scope[l].usedProps
                    /\ \A i \in (Len(sites) + 1)..Len(sites') : sites'[i].scope # l
            /\ Len(walk) > 1 =>
                    LET kids == walk'[Len(walk')].kids
                    IN  kids[Len(kids)] = IteratorOf(new.ref, l)]_vars

\* C22 witness: a for:each without index inside an open element was lowered.
C22_Witness ==
    /\ walk # <<>>
    /\ \E i \in DOMAIN walk[Len(walk)].kids :
            walk[Len(walk)].kids[i][1] = "iterator"
    /\ \E s \in DOMAIN scope : scope[s].mainFn.params = <<"item">>

\* the scopes whose helper lowers a for-of directive
ForOfScopes == {s \in DOMAIN scope : scope[s].mainFn.kind = "forof"}

\* positions of the statements of a helper body that declare the iterator
\* object, and of those that return
IteratorDecls(stmts) == {k \in DOMAIN stmts : IsDecl(stmts[k], "iterator")}

Returns(stmts) == {k \in DOMAIN stmts : stmts[k].type = "ReturnStatement"}

\* C23: the helper of a for-of with iterator name x has the parameters
\* xValue, xIndex, xFirst, xLast in this order, and its body, before and
\* after dumpScope, declares once const x = {value: xValue, index: xIndex,
\* first: xFirst, last: xLast}, before its only return statement.
C23_ForOfHelperShape ==
    \A s \in ForOfScopes :
        LET fn == scope[s].mainFn
        IN  /\ fn.params = <<"xValue", "xIndex", "xFirst", "xLast">>
            /\ Cardinality(IteratorDecls(fn.body)) = 1
            /\ Cardinality(Returns(fn.body)) = 1
            /\ \A d \in IteratorDecls(fn.body) :
                    /\ fn.body[d].props =
                            <<"x", << <<"value", "xValue">>, <<"index", "xIndex">>,
                                      <<"first", "xFirst">>, <<"last", "xLast">> >> >>
                    /\ \A r \in Returns(fn.body) : d < r

\* C23 witness: dumpScope has prepended statements to the body of a for-of
\* helper.
C23_Witness ==
    /\ phase = "done"
    /\ \E s \in ForOfScopes :
            /\ Len(scope[s].mainFn.body) >= 3
            /\ IteratorDecls(scope[s].mainFn.body) # {1}

\* the usage records of the compilation: (scope, position in the scope's map)
Records ==
    UNION {{<<s, i>> : i \in DOMAIN scope[s].usedProps} : s \in DOMAIN scope}

\* the template literal `$cv${this.id}_${this.usedProps.size}`
AliasText(gen) == gen[1] \o ToString(gen[2]) \o "_" \o ToString(gen[3])

\* C24: the alias of the record a scope created when it held n records is
\* $cv<scope id>_<n>, the aliases of the records of one compilation are
\* pairwise different, in one scope and across scopes, and no step changes
\* the alias of a record.
C24_AliasUniqueAndStable ==
    /\ [](/\ \A r \in Records :
                scope[r[1]].usedProps[r[2]].gen = <<"$cv", scope[r[1]].id, r[2] - 1>>
          /\ \A r, q \in Records :
                r # q => AliasText(scope[r[1]].usedProps[r[2]].gen)
                            # AliasText(scope[q[1]].usedProps[q[2]].gen))
    /\ [][\A r \in Records :
            /\ r[1] \in DOMAIN scope'
            /\ r[2] \in DOMAIN scope'[r[1]].usedProps
            /\ scope'[r[1]].usedProps[r[2]].name = scope[r[1]].usedProps[r[2]].name
            /\ scope'[r[1]].usedProps[r[2]].gen = scope[r[1]].usedProps[r[2]].gen]_vars

\* C24 witness: a dumped compilation with two records in one scope and a
\* record in another scope.
C24_Witness ==
    /\ phase = "done"
    /\ \E r, q \in Records : r[1] # q[1] /\ r[2] = 2

\* the callback events a patched method owes the node n: one call of the
\* slot's function when createElement upgraded n, none otherwise
Owed(n, slot) == IF n \in dom.slots THEN <<<<slot, n>>>> ELSE <<>>

\* the last patched method called its native method and that returned
NativeReturned == dom.events # <<>> /\ dom.events[1][1] = "native"

\* C25: after a patched appendChild, insertBefore, removeChild or
\* replaceChild whose native method returned, the native operation comes
\* first, then the connecting callback of an inserted upgraded element, the
\* disconnecting callback of a removed one, for replaceChild the
\* disconnecting callback of the old child before the connecting callback of
\* the new child; the method returns what the native method returned.
C25_PatchedMethodsCallSlots ==
    NativeReturned =>
        LET op == dom.events[1][2]
            args == dom.events[1][3]
            after == Tail(dom.events)
        IN  /\ dom.returned = dom.events[1][4]
            /\ op \in {"appendChild", "insertBefore"} =>
                    /\ after = Owed(args[1], "connecting")
                    /\ dom.returned = args[1]
            /\ op = "removeChild" =>
                    /\ after = Owed(args[1], "disconnecting")
                    /\ dom.returned = args[1]
            /\ op = "replaceChild" =>
                    /\ after = Owed(args[2], "disconnecting")
                                    \o Owed(args[1], "connecting")
                    /\ dom.returned = args[2]

\* C25 witness: replaceChild put an upgraded element in the place of another
\* upgraded element.
C25_Witness ==
    /\ NativeReturned
    /\ dom.events[1][2] = "replaceChild"
    /\ Len(dom.events) = 3
    /\ dom.events[2][2] # dom.events[3][2]

\* the last call of hydrateComponent entered its catch block
HydrationThrew == page.loaded /\ page.last.failed # "none"

\* C26: when a statement of the try block throws, hydrateComponent returns
\* without an exception, has logged the error, and leaves the same element
\* with no child in its shadow root (and none of its own for a light
\* component), with a VM, its props assigned, and connected.
C26_HydrationErrorRecovered ==
    HydrationThrew =>
        /\ page.last.outcome = "returned"
        /\ page.errors > 0
        /\ page.shadowKids = 0
        /\ page.last.light => page.lightKids = 0
        /\ page.vm
        /\ page.assigned >= page.last.props
        /\ page.connected

\* a call of hydrateComponent on the element while a VM is associated with it
CalledOnHydrated == page.loaded /\ page.vm /\ page'.calls = page.calls + 1

ScopeOfAlias(alias) == CHOOSE s \in DOMAIN scope : scope[s].id = alias[2]

\* the reference sites that read an alias after the dump
AliasSites == {i \in DOMAIN sites : SiteExpr(i).type = "Identifier"}

\* C28: after the dump every reference site that reads an alias $cv<s>_<n>
\* stands in the code of scope s or of a descendant of s, where the
\* destructuring of the alias is in scope.
C28_AliasReadWhereDeclared ==
    Dumped =>
        \A i \in AliasSites :
            LET s == ScopeOfAlias(SiteExpr(i).name)
            IN  sites[i].at = s \/ s \in Ancestors(sites[i].at)

\* the scopes transformChildren created for the innermost open node
Created(w) == (IF w.if THEN 1 ELSE 0) + (IF w.loop # "none" THEN 1 ELSE 0)

\* the number of scopes between scope s and the root
Depth(s) == Cardinality(Ancestors(s))

\* the step is the return of the transformation of the innermost open node
NodeReturns ==
    /\ Len(ir') = Len(ir) + 1 /\ ir'[Len(ir')][1] = "exit"
    /\ thrown' = NoError

\* the Ancestors of a scope, in the scope table after the step
RECURSIVE AncestorsAfter(_)
AncestorsAfter(s) ==
    IF scope'[s].parentScope = 0 THEN {}
    ELSE {scope'[s].parentScope} \cup AncestorsAfter(scope'[s].parentScope)

\* C29: when the transformation of a node returns, the scopes created for
\* the node have been popped and each has its helper function, so the current
\* scope is again the scope that was current before the node; when
\* generateTemplateFunction dumps, the current scope is the root and every
\* other scope has a helper function.
C29_ScopesBalanced ==
    /\ [][NodeReturns =>
            /\ currentScope' \in {currentScope} \cup Ancestors(currentScope)
            /\ Depth(currentScope) - Cardinality(AncestorsAfter(currentScope'))
                    = Created(walk[Len(walk)])
            /\ \A s \in ({currentScope} \cup Ancestors(currentScope))
                            \ ({currentScope'} \cup AncestorsAfter(currentScope')) :
                    scope'[s].mainFn # NoFn]_vars
    /\ [](phase \in {"done", "failed"} /\ thrown # "UNKNOWN_IF_MODIFIER" =>
            /\ currentScope = Root
            /\ \A s \in DOMAIN scope \ {Root} : scope[s].mainFn # NoFn)

\* the binds of property name so far: the calls of getPropName with it
Binds(name) == {i \in DOMAIN sites : sites[i].name = name}

\* the names getUsedComponentProperties() lists for destructuring
Destructured ==
    LET foo == getUsedComponentProperties(usedProps)
    IN  {foo[i][1] : i \in DOMAIN foo}

\* C30: with the property table of CodeGen, all the binds of a property
\* return one reference; it reads the instance member after the first bind
\* and the alias $cv<n> of the property's record from the second bind on, and
\* getUsedComponentProperties lists exactly the properties bound twice or more.
C30_CodeGenTableSwapsAtSecondBind ==
    binder = "codegen" =>
        /\ \A i, j \in DOMAIN sites :
                sites[i].name = sites[j].name => sites[i].ref = sites[j].ref
        /\ \A k \in DOMAIN usedProps :
                LET rec == usedProps[k]
                    n == Cardinality(Binds(rec.name))
                IN  /\ n >= 1
                    /\ rec.gen = <<"$cv", k - 1>>
                    /\ rec.replaced <=> n >= 2
                    /\ \A i \in Binds(rec.name) :
                            SiteExpr(i) = IF n >= 2 THEN Identifier(rec.gen)
                                          ELSE MemberExpression(rec.name)
        /\ \A i \in DOMAIN sites : Memoized(usedProps, sites[i].name)
        /\ Destructured = {name \in Props : Cardinality(Binds(name)) >= 2}

C30_Witness ==
    /\ binder = "codegen" /\ phase = "done"
    /\ \E a, b \in Props :
            /\ Cardinality(Binds(a)) >= 3
            /\ Cardinality(Binds(b)) = 1
            /\ a \in Destructured /\ b \notin Destructured

====
